---- MODULE Spec2Model ----
(***************************************************************************)
(* FinnWalks: the slot store, the walker registry and the HTTP handlers    *)
(* of server/routes.ts over DatabaseStorage (server/storage.ts), the       *)
(* storage instance the server exports.                                    *)
(*                                                                         *)
(* A handler is an async function: it runs without interruption between    *)
(* two awaits, and every await of a database call lets the other requests  *)
(* run.  An action of this model is one database call taking effect        *)
(* together with the handler code that follows it up to the next database  *)
(* call (or up to the response).                                           *)
(*                                                                         *)
(* A date string "YYYY-MM-DD" is the tuple <<y, m, d>>, a time string      *)
(* "HHMM" is the number HHMM: both orders (string order in SQL and in      *)
(* localeCompare) agree with the order of the zero-padded text.            *)
(***************************************************************************)
EXTENDS Integers, Sequences, FiniteSets, TLC

\* ---------------------------------------------------------------- bounds
\* requests started in one behaviour
MaxOps == 3
\* rows of walking_slots a behaviour of SpecWeek starts with
MaxRows == 2
\* registry and leaderboard requests started in one behaviour of SpecWalkers
MaxCalls == 2

\* ------------------------------------------------------- program constants
MAX_COLORS == 10
WEEK_DAYS == 7

\* ------------------------------------------------------------ input sets
NULL == "<null>"
\* the request slots: two requests may be in flight at the same time
Reqs == {1, 2}
Names == {"Ann", "Bob"}
SlotDates == {<<2025, 2, 27>>}
Times == {800, 830}
Phones == {NULL}
NotesIn == {NULL}
Instants == {0, 1}
\* what the promise of sendSmsNotification resolves to: every error of the
\* sending is caught inside it and answered with false
SmsResults == {"true", "false"}
StartDates == {<<2025, 2, 26>>, <<2024, 12, 27>>}
\* the dates of the rows SpecWeek starts with: before, in and after the weeks
WeekRowDates == {<<2025, 2, 25>>, <<2025, 2, 26>>, <<2025, 3, 4>>, <<2025, 3, 5>>,
                 <<2025, 1, 2>>}
WeekRowTimes == {800, 1230}
\* bodies of POST /api/slot, well-formed and not: "20250-02-27" and "80000"
\* have a digit too many, "" is the empty name and " " a name of one blank
AnyDates == {<<2025, 2, 27>>, <<20250, 2, 27>>}
AnyTimes == {800, 80000}
AnyNames == {"Ann", "", " "}
\* the q of GET /api/walkers/search, as sequences of characters: absent or
\* empty, one blank, "aN" and "ob"
Queries == {<<>>, <<" ">>, <<"a", "N">>, <<"o", "b">>}
\* the walkers of a registry in which every colour is taken
PaletteNames == <<"Cat", "Dan", "Eve", "Fay", "Gus", "Hal", "Ida", "Jon", "Kim", "Lee">>
\* the names POST /api/walkers/update is called with, one of them blank
UpdateNames == Names \cup {" "}
UpdatePhones == {"+15550001"}
\* the start of the next-week leaderboard and the dates of the rows the
\* leaderboards count: the last day of that week and the day after it
BoardStarts == {<<2025, 2, 26>>}
BoardRowDates == {<<2025, 3, 4>>, <<2025, 3, 5>>}

\* ---------------------------------------------------------- JS Date (UTC)
\* ECMAScript DayFromYear / MakeDay / YearFromTime, for the proleptic
\* Gregorian calendar; a Date object is its day number since 1970-01-01
\* (new Date("YYYY-MM-DD") is midnight UTC and the process clock is UTC).
IsLeap(y) == (y % 4 = 0 /\ y % 100 # 0) \/ y % 400 = 0

DaysInMonth(y, m) ==
    IF m = 2 THEN (IF IsLeap(y) THEN 29 ELSE 28)
    ELSE IF m \in {4, 6, 9, 11} THEN 30 ELSE 31

DayFromYear(y) ==
    365 * (y - 1970) + ((y - 1969) \div 4) - ((y - 1901) \div 100)
        + ((y - 1601) \div 400)

RECURSIVE DaysBeforeMonth(_, _)
DaysBeforeMonth(y, m) ==
    IF m <= 1 THEN 0 ELSE DaysBeforeMonth(y, m - 1) + DaysInMonth(y, m - 1)

\* MakeDay(year, month, date): date may overflow the month
MakeDay(y, m, d) == DayFromYear(y) + DaysBeforeMonth(y, m) + d - 1

\* new Date(str) for a calendar date string
ParseDate(s) == MakeDay(s[1], s[2], s[3])

RECURSIVE YearFromDay(_, _)
YearFromDay(day, y) ==
    IF DayFromYear(y + 1) <= day THEN YearFromDay(day, y + 1)
    ELSE IF DayFromYear(y) > day THEN YearFromDay(day, y - 1)
    ELSE y

RECURSIVE MonthFromDay(_, _, _)
MonthFromDay(dayInYear, y, m) ==
    IF dayInYear >= DaysBeforeMonth(y, m + 1) THEN MonthFromDay(dayInYear, y, m + 1)
    ELSE m

\* date.toISOString().split('T')[0]
ToISODate(day) ==
    LET y == YearFromDay(day, 2025)
        diy == day - DayFromYear(y)
        m == MonthFromDay(diy, y, 1)
    IN <<y, m, diy - DaysBeforeMonth(y, m) + 1>>

\* date.getDate()
GetDate(day) == ToISODate(day)[3]

\* date.setDate(n): same year and month, day of month n
SetDate(day, n) == LET c == ToISODate(day) IN MakeDay(c[1], c[2], n)

\* order of two "YYYY-MM-DD" strings
DateLeq(a, b) ==
    \/ a[1] < b[1]
    \/ a[1] = b[1] /\ a[2] < b[2]
    \/ a[1] = b[1] /\ a[2] = b[2] /\ a[3] <= b[3]

\* ------------------------------------------------------------------ state
VARIABLES
    walkingSlots,   \* table walking_slots: a set of rows
    nextId,         \* the serial of walking_slots.id
    walkerColors,   \* table walker_colors: a set of rows, name is the key
    firstColor,     \* history: the colorIndex first returned for a name, -1 if none
    dbUp,           \* the database answers
    now,            \* Math.floor(Date.now() / 1000)
    req,            \* the request in each request slot
    opsLeft         \* requests that may still start

vars == <<walkingSlots, nextId, walkerColors, firstColor, dbUp, now, req, opsLeft>>

\* a request slot with no request
Idle ==
    [kind |-> "none", pc |-> "idle", date |-> <<0, 0, 0>>, time |-> 0,
     name |-> NULL, phone |-> NULL, notes |-> NULL,
     slot |-> {}, newSlot |-> {}, removed |-> FALSE, taken |-> FALSE,
     start |-> <<0, 0, 0>>, schedule |-> {},
     calls |-> <<>>, counts |-> <<>>, colorIndex |-> -1, leaderboard |-> <<>>,
     query |-> <<>>, walkers |-> {},
     status |-> 0, error |-> NULL, body |-> {}, events |-> <<>>]

InFlight(r) == req[r].pc \notin {"idle", "done"}

\* a call of getWalkerColorIndex is in a while loop that does not end: the
\* loop has no await, so the one thread of the server runs nothing else
Spinning ==
    \E r \in Reqs : \E n \in DOMAIN req[r].calls : req[r].calls[n].pc = "spin"

Init ==
    /\ walkingSlots = {}
    /\ nextId = 1
    /\ walkerColors = {}
    /\ firstColor = [n \in Names |-> -1]
    /\ dbUp = TRUE
    /\ now = 0
    /\ req = [r \in Reqs |-> Idle]
    /\ opsLeft = MaxOps

\* ----------------------------------------------------------- shared/schema
\* insertSlotSchema / deleteSlotSchema: date ^\d{4}-\d{2}-\d{2}$, time ^\d{4}$,
\* name z.string().min(1)
DateShape(d) == d[1] \in 0..9999 /\ d[2] \in 0..99 /\ d[3] \in 0..99
TimeShape(t) == t \in 0..9999
insertSlotSchema(in) == DateShape(in.date) /\ TimeShape(in.time) /\ in.name # ""
deleteSlotSchema(in) == DateShape(in.date) /\ TimeShape(in.time) /\ in.name # ""

\* ------------------------------------------------------- DatabaseStorage
\* x || d
OrElse(x, d) == IF x \in {NULL, ""} THEN d ELSE x

\* the WalkingSlot getSlot builds from a row
SlotOf(row) ==
    [date |-> row.date, time |-> row.time, name |-> row.name,
     notes |-> OrElse(row.notes, ""), timestamp |-> row.timestamp]

RowsAt(slots, date, time) == {s \in slots : s.date = date /\ s.time = time}

\* getSlot: the values it can return, {} for null.  A failed query is caught
\* and answered with null; of several matching rows the first one the
\* database returns is taken, and the query has no ORDER BY.
getSlot(slots, up, date, time) ==
    IF ~up \/ RowsAt(slots, date, time) = {} THEN {{}}
    ELSE {{SlotOf(row)} : row \in RowsAt(slots, date, time)}

\* the object addSlot builds and returns
NewSlot(in, ts) ==
    [date |-> in.date, time |-> in.time, name |-> in.name,
     phone |-> OrElse(in.phone, NULL), notes |-> OrElse(in.notes, ""),
     timestamp |-> ts]

\* db.insert(walkingSlots).values(newSlot)
InsertSlot(slots, id, s) ==
    slots \cup {[id |-> id, date |-> s.date, time |-> s.time, name |-> s.name,
                 phone |-> s.phone, notes |-> s.notes, timestamp |-> s.timestamp]}

\* db.delete(walkingSlots).where(date = .. and time = ..)
DeleteSlots(slots, date, time) == slots \ RowsAt(slots, date, time)

\* sendSmsNotification(action, slot) is called and not awaited; sms is what
\* its promise resolves to
Event(action, slot, sms) == [action |-> action, slot |-> slot, sms |-> sms]

Respond(q, status, error) == [q EXCEPT !.pc = "done", !.status = status, !.error = error]

\* a request enters slot r, the first slot that is free; the request that
\* used the slot before is forgotten
Enter(r, q) ==
    /\ ~Spinning
    /\ ~InFlight(r)
    /\ \A x \in Reqs : x < r => InFlight(x)
    /\ opsLeft > 0
    /\ opsLeft' = opsLeft - 1
    /\ req' = [req EXCEPT ![r] = q]

\* ------------------------------------------------------- POST /api/slot
\* insertSlotSchema.parse(req.body): a body that does not parse is answered
\* 400, else the request goes on to the route's getSlot
BookRequest(in) ==
    LET q == [Idle EXCEPT !.kind = "book", !.date = in.date, !.time = in.time,
                          !.name = in.name, !.phone = in.phone, !.notes = in.notes]
    IN IF insertSlotSchema(in)
       THEN [q EXCEPT !.pc = "book_check"]
       ELSE Respond(q, 400, "ZodError")

\* the request arrives: parse, then storage.getSlot is awaited
BookStart(r) ==
    \E d \in SlotDates, t \in Times, n \in Names \cup {""}, p \in Phones, o \in NotesIn :
        /\ Enter(r, BookRequest([date |-> d, time |-> t, name |-> n,
                                 phone |-> p, notes |-> o]))
        /\ UNCHANGED <<walkingSlots, nextId, walkerColors, firstColor, dbUp, now>>

\* the same with a body of AnyDates, AnyTimes and AnyNames
BookAnyStart(r) ==
    \E d \in AnyDates, t \in AnyTimes, n \in AnyNames :
        /\ Enter(r, BookRequest([date |-> d, time |-> t, name |-> n,
                                 phone |-> NULL, notes |-> NULL]))
        /\ UNCHANGED <<walkingSlots, nextId, walkerColors, firstColor, dbUp, now>>

\* BookCheck that writes the name of the request over the slot it finds
\* before it answers 400
BookCheck_Overwrites(r) ==
    /\ req[r].pc = "book_check"
    /\ \E existingSlot \in getSlot(walkingSlots, dbUp, req[r].date, req[r].time) :
          IF existingSlot # {}
          THEN /\ req' = [req EXCEPT ![r] =
                            [Respond(@, 400, "Slot already booked") EXCEPT !.taken = TRUE]]
               /\ walkingSlots' =
                     {IF row.date = req[r].date /\ row.time = req[r].time
                      THEN [row EXCEPT !.name = req[r].name] ELSE row
                      : row \in walkingSlots}
          ELSE /\ req' = [req EXCEPT ![r] = [@ EXCEPT !.pc = "add_check"]]
               /\ UNCHANGED walkingSlots
    /\ UNCHANGED <<nextId, walkerColors, firstColor, dbUp, now, opsLeft>>

\* the route's getSlot returns: 400 if the slot exists, else addSlot is
\* called and its own getSlot is awaited
BookCheck(r) ==
    /\ req[r].pc = "book_check"
    /\ \E existingSlot \in getSlot(walkingSlots, dbUp, req[r].date, req[r].time) :
          req' = [req EXCEPT ![r] =
                    IF existingSlot # {}
                    THEN [Respond(@, 400, "Slot already booked") EXCEPT !.taken = TRUE]
                    ELSE [@ EXCEPT !.pc = "add_check"]]
    /\ UNCHANGED <<walkingSlots, nextId, walkerColors, firstColor, dbUp, now, opsLeft>>

\* addSlot's getSlot returns: it throws if the slot exists (the route answers
\* 500), else it builds newSlot with the current time and awaits the insert
AddSlotCheck(r) ==
    /\ req[r].pc = "add_check"
    /\ \E existingSlot \in getSlot(walkingSlots, dbUp, req[r].date, req[r].time),
          t \in {i \in Instants : i >= now} :
          /\ IF existingSlot # {}
             THEN /\ req' = [req EXCEPT ![r] =
                               [Respond(@, 500, "Failed to book slot") EXCEPT
                                   !.taken = TRUE]]
                  /\ now' = now
             ELSE /\ req' = [req EXCEPT ![r] =
                               [@ EXCEPT !.pc = "add_insert",
                                         !.newSlot = {NewSlot(req[r], t)}]]
                  /\ now' = t
    /\ UNCHANGED <<walkingSlots, nextId, walkerColors, firstColor, dbUp, opsLeft>>

\* AddSlotInsert with the notification awaited and its failure thrown: the
\* row is stored and the route answers 500 when the sending fails
AddSlotInsert_AwaitsSms(r) ==
    /\ req[r].pc = "add_insert"
    /\ LET s == CHOOSE x \in req[r].newSlot : TRUE IN
       IF dbUp
       THEN /\ walkingSlots' = InsertSlot(walkingSlots, nextId, s)
            /\ nextId' = nextId + 1
            /\ \E sms \in SmsResults :
                  req' = [req EXCEPT ![r] =
                            IF sms = "true"
                            THEN [Respond(@, 201, NULL) EXCEPT
                                     !.body = {s},
                                     !.events = Append(@, Event("book", s, sms))]
                            ELSE [Respond(@, 500, "Failed to book slot") EXCEPT
                                     !.events = Append(@, Event("book", s, sms))]]
       ELSE /\ req' = [req EXCEPT ![r] = Respond(@, 500, "Failed to book slot")]
            /\ UNCHANGED <<walkingSlots, nextId>>
    /\ UNCHANGED <<walkerColors, firstColor, dbUp, now, opsLeft>>

\* the insert returns: the row is stored, the notification is sent without
\* being awaited, and the route answers 201 with newSlot; a failed insert
\* throws and the route answers 500
AddSlotInsert(r) ==
    /\ req[r].pc = "add_insert"
    /\ LET s == CHOOSE x \in req[r].newSlot : TRUE IN
       IF dbUp
       THEN /\ walkingSlots' = InsertSlot(walkingSlots, nextId, s)
            /\ nextId' = nextId + 1
            /\ \E sms \in SmsResults :
                  req' = [req EXCEPT ![r] =
                            [Respond(@, 201, NULL) EXCEPT
                                !.body = {s},
                                !.events = Append(@, Event("book", s, sms))]]
       ELSE /\ req' = [req EXCEPT ![r] = Respond(@, 500, "Failed to book slot")]
            /\ UNCHANGED <<walkingSlots, nextId>>
    /\ UNCHANGED <<walkerColors, firstColor, dbUp, now, opsLeft>>

\* ----------------------------------------------------- DELETE /api/slot
\* the request arrives: parse, then storage.getSlot is awaited
CancelStart(r) ==
    \E d \in SlotDates, t \in Times, n \in Names \cup {""} :
        LET in == [date |-> d, time |-> t, name |-> n]
            q == [Idle EXCEPT !.kind = "cancel", !.date = d, !.time = t, !.name = n]
        IN /\ Enter(r, IF deleteSlotSchema(in)
                        THEN [q EXCEPT !.pc = "cancel_check"]
                        ELSE Respond(q, 400, "ZodError"))
           /\ UNCHANGED <<walkingSlots, nextId, walkerColors, firstColor, dbUp, now>>

\* CancelCheck without the early return on a missing slot: the route goes on
\* and answers 200
CancelCheck_NoNotFound(r) ==
    /\ req[r].pc = "cancel_check"
    /\ \E slot \in getSlot(walkingSlots, dbUp, req[r].date, req[r].time) :
          req' = [req EXCEPT ![r] =
                    IF slot = {}
                    THEN Respond(@, 200, NULL)
                    ELSE [@ EXCEPT !.pc = "remove_check", !.slot = slot]]
    /\ UNCHANGED <<walkingSlots, nextId, walkerColors, firstColor, dbUp, now, opsLeft>>

\* the route's getSlot returns: 404 if there is no slot, else removeSlot is
\* called and its own getSlot is awaited
CancelCheck(r) ==
    /\ req[r].pc = "cancel_check"
    /\ \E slot \in getSlot(walkingSlots, dbUp, req[r].date, req[r].time) :
          req' = [req EXCEPT ![r] =
                    IF slot = {}
                    THEN Respond(@, 404, "Slot not found")
                    ELSE [@ EXCEPT !.pc = "remove_check", !.slot = slot]]
    /\ UNCHANGED <<walkingSlots, nextId, walkerColors, firstColor, dbUp, now, opsLeft>>

\* CancelDone without the call of sendSmsNotification
CancelDone_NoEvent(q, removed, sms) ==
    [Respond(q, 200, NULL) EXCEPT !.removed = removed]

\* what the route does once removeSlot has returned: the notification carries
\* the slot the route read with the name of the request, and the answer is 200
CancelDone(q, removed, sms) ==
    [Respond(q, 200, NULL) EXCEPT
        !.removed = removed,
        !.events = Append(@, Event("cancel",
                     [(CHOOSE x \in q.slot : TRUE) EXCEPT !.name = q.name], sms))]

\* removeSlot's getSlot returns: removeSlot returns false if there is no
\* slot (the route ignores the result), else the delete is awaited
RemoveSlotCheck(r) ==
    /\ req[r].pc = "remove_check"
    /\ \E existingSlot \in getSlot(walkingSlots, dbUp, req[r].date, req[r].time) :
          IF existingSlot = {}
          THEN \E sms \in SmsResults :
                  req' = [req EXCEPT ![r] = CancelDone(@, FALSE, sms)]
          ELSE req' = [req EXCEPT ![r] = [@ EXCEPT !.pc = "remove_delete"]]
    /\ UNCHANGED <<walkingSlots, nextId, walkerColors, firstColor, dbUp, now, opsLeft>>

\* the delete returns: every row of the key is gone and removeSlot returns
\* true; a failed delete throws and the route answers 500
RemoveSlotDelete(r) ==
    /\ req[r].pc = "remove_delete"
    /\ IF dbUp
       THEN /\ walkingSlots' = DeleteSlots(walkingSlots, req[r].date, req[r].time)
            /\ \E sms \in SmsResults :
                  req' = [req EXCEPT ![r] = CancelDone(@, TRUE, sms)]
       ELSE /\ req' = [req EXCEPT ![r] = Respond(@, 500, "Failed to delete slot")]
            /\ UNCHANGED walkingSlots
    /\ UNCHANGED <<nextId, walkerColors, firstColor, dbUp, now, opsLeft>>

\* ----------------------------------------------------- GET /api/schedule
\* WeekDates with the day of the month put into the string as it is, without
\* the roll-over into the next month
WeekDates_NoRollover(startDate) ==
    [i \in 0..(WEEK_DAYS - 1) |-> <<startDate[1], startDate[2], startDate[3] + i>>]

\* getSchedule's loop: date = new Date(start); date.setDate(date.getDate() + i);
\* dates[i] = date.toISOString().split('T')[0]
WeekDates(startDate) ==
    [i \in 0..(WEEK_DAYS - 1) |->
        ToISODate(SetDate(ParseDate(startDate), GetDate(ParseDate(startDate)) + i))]

\* ORDER BY date ASC, time ASC
SlotOrder(a, b) == IF a.date = b.date THEN a.time <= b.time ELSE DateLeq(a.date, b.date)

\* the orders in which the database may return the rows: sorted, rows with
\* equal date and time in any order
Ordered(rows) ==
    {q \in [1..Cardinality(rows) -> rows] :
        /\ \A i, j \in DOMAIN q : i # j => q[i] # q[j]
        /\ \A i, j \in DOMAIN q : i < j => SlotOrder(q[i], q[j])}

\* for (const slot of slots) if (schedule[slot.date]) schedule[slot.date].push(..)
RECURSIVE Organize(_, _, _)
Organize(schedule, q, i) ==
    IF i > Len(q) THEN schedule
    ELSE Organize(IF q[i].date \in DOMAIN schedule
                  THEN [schedule EXCEPT ![q[i].date] = Append(@, SlotOf(q[i]))]
                  ELSE schedule, q, i + 1)

\* getSchedule: the schedules it can return.  A failed query is caught and
\* the seven empty lists are returned.
getSchedule(slots, up, startDate) ==
    LET dates == WeekDates(startDate)
        empty == [d \in {dates[i] : i \in DOMAIN dates} |-> <<>>]
        endDate == dates[WEEK_DAYS - 1]
        rows == {s \in slots : DateLeq(startDate, s.date) /\ DateLeq(s.date, endDate)}
    IN IF ~up THEN {empty}
       ELSE {Organize(empty, q, 1) : q \in Ordered(rows)}

\* the request arrives: the start date is checked against ^\d{4}-\d{2}-\d{2}$,
\* getSchedule builds the dates and awaits the query
ScheduleStart(r) ==
    \E s \in StartDates :
        LET q == [Idle EXCEPT !.kind = "schedule", !.start = s]
        IN /\ Enter(r, IF DateShape(s)
                        THEN [q EXCEPT !.pc = "schedule_query"]
                        ELSE Respond(q, 400, "Invalid date format. Use YYYY-MM-DD"))
           /\ UNCHANGED <<walkingSlots, nextId, walkerColors, firstColor, dbUp, now>>

\* the query returns and the route answers with the schedule
ScheduleReturn(r) ==
    /\ req[r].pc = "schedule_query"
    /\ \E schedule \in getSchedule(walkingSlots, dbUp, req[r].start) :
          req' = [req EXCEPT ![r] = [Respond(@, 200, NULL) EXCEPT !.schedule = {schedule}]]
    /\ UNCHANGED <<walkingSlots, nextId, walkerColors, firstColor, dbUp, now, opsLeft>>

\* ------------------------------------------------------- walker registry
\* name.trim() of the names of UpdateNames
Trim(name) == IF name = " " THEN "" ELSE name

\* a call of getWalkerColorIndex that awaits its first query
NewCall == [pc |-> "select", nextIndex |-> -1, ret |-> -1]

\* let nextIndex = 0; while (existingIndices.includes(nextIndex))
\*     nextIndex = (nextIndex + 1) % MAX_COLORS;
\* -1 if the loop does not end
RECURSIVE NextIndex(_, _, _)
NextIndex(existingIndices, nextIndex, turns) ==
    IF nextIndex \notin existingIndices THEN nextIndex
    ELSE IF turns = 0 THEN -1
    ELSE NextIndex(existingIndices, (nextIndex + 1) % MAX_COLORS, turns - 1)

\* getAllWalkers: a failed query is caught and answered with []
getAllWalkers(walkers, up) == IF up THEN walkers ELSE {}

\* leaderboard.sort((a, b) => b.totalWalks - a.totalWalks): the sort is stable
RECURSIVE SortByWalks(_)
SortByWalks(s) ==
    IF s = <<>> THEN <<>>
    ELSE LET rest == SortByWalks(SubSeq(s, 1, Len(s) - 1))
             e == s[Len(s)]
             k == Cardinality({i \in DOMAIN rest : rest[i].totalWalks >= e.totalWalks})
         IN SubSeq(rest, 1, k) \o <<e>> \o SubSeq(rest, k + 1, Len(rest))

\* the entries Promise.all resolves to, in the order of Object.entries(walkCounts)
Entries(q) ==
    [i \in DOMAIN q.counts |->
        [name |-> q.counts[i][1], totalWalks |-> q.counts[i][2],
         colorIndex |-> q.calls[q.counts[i][1]].ret]]

\* the history of the colours returned: the first one of a name is kept
Returned(fc, name, colorIndex) ==
    IF fc[name] = -1 THEN [fc EXCEPT ![name] = colorIndex] ELSE fc

\* getWalkerColorIndex(name) returns colorIndex to the code that awaits it:
\* the colour route answers, updateWalker awaits its update of the phone, a
\* leaderboard sorts and answers once every call of Promise.all has returned
AfterCall(q, name, colorIndex) ==
    LET q1 == [q EXCEPT !.calls[name].pc = "done", !.calls[name].ret = colorIndex]
    IN IF q.kind = "color"
       THEN [Respond(q1, 200, NULL) EXCEPT !.colorIndex = colorIndex]
       ELSE IF q.kind = "update"
       THEN [q1 EXCEPT !.pc = "update_set", !.colorIndex = colorIndex]
       ELSE IF \A m \in DOMAIN q1.calls : q1.calls[m].pc = "done"
       THEN [Respond(q1, 200, NULL) EXCEPT !.leaderboard = SortByWalks(Entries(q1))]
       ELSE q1

Calling(r, name, pc) ==
    /\ ~Spinning
    /\ InFlight(r)
    /\ name \in DOMAIN req[r].calls
    /\ req[r].calls[name].pc = pc

\* getWalkerColorIndex, the select by name returns: the stored colorIndex if
\* there is a row, else getAllWalkers is awaited; a failed query is caught
\* and 0 is returned
WalkerSelect(r, name) ==
    /\ Calling(r, name, "select")
    /\ LET found == {w \in walkerColors : w.name = name} IN
       IF ~dbUp \/ found # {}
       THEN LET c == IF ~dbUp THEN 0 ELSE (CHOOSE w \in found : TRUE).colorIndex
            IN /\ req' = [req EXCEPT ![r] = AfterCall(@, name, c)]
               /\ firstColor' = Returned(firstColor, name, c)
       ELSE /\ req' = [req EXCEPT ![r].calls[name].pc = "getAll"]
            /\ UNCHANGED firstColor
    /\ UNCHANGED <<walkingSlots, nextId, walkerColors, dbUp, now, opsLeft>>

\* getWalkerColorIndex, getAllWalkers returns: the lowest index no walker has
\* is computed and the insert is awaited
WalkerGetAll(r, name) ==
    /\ Calling(r, name, "getAll")
    /\ LET existingIndices == {w.colorIndex : w \in getAllWalkers(walkerColors, dbUp)}
           nextIndex == NextIndex(existingIndices, 0, MAX_COLORS)
       IN req' = [req EXCEPT ![r].calls[name] =
                     IF nextIndex = -1 THEN [@ EXCEPT !.pc = "spin"]
                     ELSE [@ EXCEPT !.pc = "insert", !.nextIndex = nextIndex]]
    /\ UNCHANGED <<walkingSlots, nextId, walkerColors, firstColor, dbUp, now, opsLeft>>

\* getWalkerColorIndex, the insert returns: the row is stored and nextIndex
\* is returned; a failed insert (no database, or the name is already a key
\* of the table) is caught and 0 is returned
WalkerInsert(r, name) ==
    /\ Calling(r, name, "insert")
    /\ LET ok == dbUp /\ \A w \in walkerColors : w.name # name
           c == IF ok THEN req[r].calls[name].nextIndex ELSE 0
       IN /\ walkerColors' =
                IF ok THEN walkerColors \cup
                            {[name |-> name, colorIndex |-> c, phone |-> NULL]}
                ELSE walkerColors
          /\ req' = [req EXCEPT ![r] = AfterCall(@, name, c)]
          /\ firstColor' = Returned(firstColor, name, c)
    /\ UNCHANGED <<walkingSlots, nextId, dbUp, now, opsLeft>>

\* ------------------------------------------- GET /api/walker-color/:name
ColorStart(r) ==
    \E n \in Names :
        /\ Enter(r, [Idle EXCEPT !.kind = "color", !.pc = "color_call", !.name = n,
                                 !.calls = [m \in {n} |-> NewCall]])
        /\ UNCHANGED <<walkingSlots, nextId, walkerColors, firstColor, dbUp, now>>

\* ------------------------------------------- POST /api/walkers/update
\* the request arrives: 400 for a blank name, else updateWalker(name.trim(),
\* phone) awaits its select by name
UpdateStart(r) ==
    \E n \in UpdateNames, p \in UpdatePhones :
        LET q == [Idle EXCEPT !.kind = "update", !.name = Trim(n), !.phone = p]
        IN /\ Enter(r, IF n = "" \/ Trim(n) = ""
                        THEN Respond(q, 400, "Walker name is required")
                        ELSE [q EXCEPT !.pc = "update_select"])
           /\ UNCHANGED <<walkingSlots, nextId, walkerColors, firstColor, dbUp, now>>

\* updateWalker, the select returns: for a stored walker the update of the
\* phone is awaited, else getWalkerColorIndex is called; a failed query is
\* caught, colorIndex 0 is returned and the route answers with it
UpdateSelect(r) ==
    /\ req[r].pc = "update_select"
    /\ LET found == {w \in walkerColors : w.name = req[r].name} IN
       IF ~dbUp
       THEN /\ req' = [req EXCEPT ![r] = [Respond(@, 200, NULL) EXCEPT !.colorIndex = 0]]
            /\ firstColor' = Returned(firstColor, req[r].name, 0)
       ELSE /\ req' = [req EXCEPT ![r] =
                         IF found # {}
                         THEN [@ EXCEPT !.pc = "update_set",
                                        !.colorIndex = (CHOOSE w \in found : TRUE).colorIndex]
                         ELSE [@ EXCEPT !.pc = "update_color",
                                        !.calls = [m \in {req[r].name} |-> NewCall]]]
            /\ UNCHANGED firstColor
    /\ UNCHANGED <<walkingSlots, nextId, walkerColors, dbUp, now, opsLeft>>

\* updateWalker, the update of the phone returns: the walker is returned with
\* the colorIndex read or assigned before; a failed update is caught and
\* colorIndex 0 is returned; the route answers with the walker
UpdateSet(r) ==
    /\ req[r].pc = "update_set"
    /\ LET c == IF dbUp THEN req[r].colorIndex ELSE 0 IN
       /\ walkerColors' =
             IF dbUp
             THEN {IF w.name = req[r].name THEN [w EXCEPT !.phone = req[r].phone] ELSE w
                   : w \in walkerColors}
             ELSE walkerColors
       /\ req' = [req EXCEPT ![r] = [Respond(@, 200, NULL) EXCEPT !.colorIndex = c]]
       /\ firstColor' = Returned(firstColor, req[r].name, c)
    /\ UNCHANGED <<walkingSlots, nextId, dbUp, now, opsLeft>>

\* ------------------------------------------- GET /api/walkers/search
\* the characters of a name
Chars(name) ==
    IF name = "Ann" THEN <<"A", "n", "n">>
    ELSE IF name = "Bob" THEN <<"B", "o", "b">>
    ELSE IF name = " " THEN <<" ">>
    ELSE <<>>

\* String.prototype.toLowerCase, character by character
LowerChar(c) ==
    IF c = "A" THEN "a" ELSE IF c = "B" THEN "b" ELSE IF c = "N" THEN "n"
    ELSE IF c = "O" THEN "o" ELSE c

ToLowerCase(str) == [i \in DOMAIN str |-> LowerChar(str[i])]

\* String.prototype.trim
RECURSIVE TrimChars(_)
TrimChars(str) ==
    IF str = <<>> THEN <<>>
    ELSE IF Head(str) = " " THEN TrimChars(Tail(str))
    ELSE IF str[Len(str)] = " " THEN TrimChars(SubSeq(str, 1, Len(str) - 1))
    ELSE str

\* String.prototype.includes
Includes(str, part) ==
    \E i \in 0..(Len(str) - Len(part)) : SubSeq(str, i + 1, i + Len(part)) = part

\* searchWalkers: every walker for a query that is empty or blank, else the
\* walkers whose lower-cased name includes the lower-cased query
searchWalkers(walkers, up, query) ==
    IF query = <<>> \/ TrimChars(query) = <<>> THEN getAllWalkers(walkers, up)
    ELSE {w \in getAllWalkers(walkers, up) :
            Includes(ToLowerCase(Chars(w.name)), ToLowerCase(query))}

\* the request arrives and searchWalkers awaits getAllWalkers
SearchStart(r) ==
    \E q \in Queries :
        /\ Enter(r, [Idle EXCEPT !.kind = "search", !.pc = "search_query", !.query = q])
        /\ UNCHANGED <<walkingSlots, nextId, walkerColors, firstColor, dbUp, now>>

\* getAllWalkers returns and the route answers with the walkers found
SearchReturn(r) ==
    /\ req[r].pc = "search_query"
    /\ req' = [req EXCEPT ![r] =
                 [Respond(@, 200, NULL) EXCEPT
                     !.walkers = searchWalkers(walkerColors, dbUp, req[r].query)]]
    /\ UNCHANGED <<walkingSlots, nextId, walkerColors, firstColor, dbUp, now, opsLeft>>

\* ------------------------------------------------ GET /api/leaderboard/*
AllTimeStart(r) ==
    /\ Enter(r, [Idle EXCEPT !.kind = "allTime", !.pc = "board_query"])
    /\ UNCHANGED <<walkingSlots, nextId, walkerColors, firstColor, dbUp, now>>

\* the start date is checked against ^\d{4}-\d{2}-\d{2}$
NextWeekStart(r) ==
    \E s \in BoardStarts :
        LET q == [Idle EXCEPT !.kind = "nextWeek", !.start = s]
        IN /\ Enter(r, IF DateShape(s)
                        THEN [q EXCEPT !.pc = "board_query"]
                        ELSE Respond(q, 400, "Invalid date format. Use YYYY-MM-DD"))
           /\ UNCHANGED <<walkingSlots, nextId, walkerColors, firstColor, dbUp, now>>

\* the rows a leaderboard counts: all of them, or those with
\* startDateStr <= date <= endDateStr, endDateObj.setDate(getDate() + 6)
BoardRows(q, slots) ==
    IF q.kind = "allTime" THEN slots
    ELSE LET startDateObj == ParseDate(q.start)
             startDateStr == ToISODate(startDateObj)
             endDateStr == ToISODate(SetDate(startDateObj, GetDate(startDateObj) + 6))
         IN {s \in slots : DateLeq(startDateStr, s.date) /\ DateLeq(s.date, endDateStr)}

\* Object.entries(walkCounts): the names in the order in which the rows of
\* the query first show them (the query has no ORDER BY), with their counts
WalkCounts(rows) ==
    LET names == {s.name : s \in rows}
    IN {[i \in 1..Cardinality(names) |->
            <<f[i], Cardinality({s \in rows : s.name = f[i]})>>]
        : f \in {g \in [1..Cardinality(names) -> names] :
                    \A i, j \in 1..Cardinality(names) : i # j => g[i] # g[j]}}

\* the query of the slots returns: the walks are counted and
\* getWalkerColorIndex is called for every name at once; a failed query is
\* caught and the route answers with []
BoardQuery(r) ==
    /\ req[r].pc = "board_query"
    /\ IF ~dbUp
       THEN req' = [req EXCEPT ![r] = Respond(@, 200, NULL)]
       ELSE \E counts \in WalkCounts(BoardRows(req[r], walkingSlots)) :
               req' = [req EXCEPT ![r] =
                         IF counts = <<>> THEN Respond(@, 200, NULL)
                         ELSE [@ EXCEPT !.pc = "board_calls", !.counts = counts,
                                        !.calls = [m \in {counts[i][1] : i \in DOMAIN counts}
                                                     |-> NewCall]]]
    /\ UNCHANGED <<walkingSlots, nextId, walkerColors, firstColor, dbUp, now, opsLeft>>

\* ------------------------------------------------------------ environment
DbFails ==
    /\ dbUp
    /\ dbUp' = FALSE
    /\ UNCHANGED <<walkingSlots, nextId, walkerColors, firstColor, now, req, opsLeft>>

DbRecovers ==
    /\ ~dbUp
    /\ dbUp' = TRUE
    /\ UNCHANGED <<walkingSlots, nextId, walkerColors, firstColor, now, req, opsLeft>>

Next ==
    \/ \E r \in Reqs : BookStart(r)
    \/ \E r \in Reqs : BookCheck(r)
    \/ \E r \in Reqs : AddSlotCheck(r)
    \/ \E r \in Reqs : AddSlotInsert(r)
    \/ \E r \in Reqs : CancelStart(r)
    \/ \E r \in Reqs : CancelCheck(r)
    \/ \E r \in Reqs : RemoveSlotCheck(r)
    \/ \E r \in Reqs : RemoveSlotDelete(r)
    \/ DbFails
    \/ DbRecovers

Spec == Init /\ [][Next]_vars

\* ------------------------------------------- requests on a booked key
\* the store after Ann's booking of 2025-02-27 0800 was answered 201
InitBooked ==
    /\ walkingSlots = InsertSlot({}, 1,
          NewSlot([date |-> <<2025, 2, 27>>, time |-> 800, name |-> "Ann",
                   phone |-> NULL, notes |-> NULL], 0))
    /\ nextId = 2
    /\ walkerColors = {}
    /\ firstColor = [n \in Names |-> -1]
    /\ dbUp = TRUE
    /\ now = 0
    /\ req = [r \in Reqs |-> Idle]
    /\ opsLeft = MaxOps

SpecBooked == InitBooked /\ [][Next]_vars

\* ------------------------------------------------- the schedule of a store
\* a table of at most MaxRows rows, as book requests can leave it (two rows
\* may have the same key), and one schedule request: a read leaves the table
\* as it is
Stores ==
    UNION {{ {[id |-> i, date |-> f[i][1], time |-> f[i][2], name |-> f[i][3],
               phone |-> NULL, notes |-> "", timestamp |-> 0] : i \in 1..n}
             : f \in [1..n -> WeekRowDates \X WeekRowTimes \X {"Ann"}]}
           : n \in 0..MaxRows}

InitWeek ==
    /\ walkingSlots \in Stores
    /\ nextId = Cardinality(walkingSlots) + 1
    /\ walkerColors = {}
    /\ firstColor = [n \in Names |-> -1]
    /\ dbUp = TRUE
    /\ now = 0
    /\ req = [r \in Reqs |-> Idle]
    /\ opsLeft = 1

NextWeek ==
    \/ \E r \in Reqs : ScheduleStart(r)
    \/ \E r \in Reqs : ScheduleReturn(r)
    \/ DbFails
    \/ DbRecovers

\* ------------------------------------------- bookings with any body
NextInputs ==
    \/ \E r \in Reqs : BookAnyStart(r)
    \/ \E r \in Reqs : BookCheck(r)
    \/ \E r \in Reqs : AddSlotCheck(r)
    \/ \E r \in Reqs : AddSlotInsert(r)
    \/ DbFails
    \/ DbRecovers

SpecInputs == Init /\ [][NextInputs]_vars

SpecWeek == InitWeek /\ [][NextWeek]_vars

\* ------------------------------------------- the registry and the boards
\* a table of at most MaxRows rows as book requests leave it; booking does
\* not touch walker_colors, so the registry starts empty
BoardStores ==
    UNION {{ {[id |-> i, date |-> f[i][1], time |-> 800 + 100 * i, name |-> f[i][2],
               phone |-> NULL, notes |-> "", timestamp |-> 0] : i \in 1..n}
             : f \in [1..n -> BoardRowDates \X Names]}
           : n \in 0..MaxRows}

InitWalkers ==
    /\ walkingSlots \in BoardStores
    /\ nextId = Cardinality(walkingSlots) + 1
    /\ walkerColors = {}
    /\ firstColor = [n \in Names |-> -1]
    /\ dbUp = TRUE
    /\ now = 0
    /\ req = [r \in Reqs |-> Idle]
    /\ opsLeft = MaxCalls

NextWalkers ==
    \/ \E r \in Reqs : ColorStart(r)
    \/ \E r \in Reqs : UpdateStart(r)
    \/ \E r \in Reqs : UpdateSelect(r)
    \/ \E r \in Reqs : UpdateSet(r)
    \/ \E r \in Reqs : AllTimeStart(r)
    \/ \E r \in Reqs : NextWeekStart(r)
    \/ \E r \in Reqs : BoardQuery(r)
    \/ \E r \in Reqs, n \in Names : WalkerSelect(r, n)
    \/ \E r \in Reqs, n \in Names : WalkerGetAll(r, n)
    \/ \E r \in Reqs, n \in Names : WalkerInsert(r, n)
    \/ DbFails
    \/ DbRecovers

SpecWalkers == InitWalkers /\ [][NextWalkers]_vars

\* ------------------------------------------------ the registry alone
NextRegistry ==
    \/ \E r \in Reqs : ColorStart(r)
    \/ \E r \in Reqs : UpdateStart(r)
    \/ \E r \in Reqs : UpdateSelect(r)
    \/ \E r \in Reqs : UpdateSet(r)
    \/ \E r \in Reqs : SearchStart(r)
    \/ \E r \in Reqs : SearchReturn(r)
    \/ \E r \in Reqs, n \in Names : WalkerSelect(r, n)
    \/ \E r \in Reqs, n \in Names : WalkerGetAll(r, n)
    \/ \E r \in Reqs, n \in Names : WalkerInsert(r, n)
    \/ DbFails
    \/ DbRecovers

SpecRegistry == Init /\ [][NextRegistry]_vars

\* ------------------------------------------------ the full palette
\* the registry after MAX_COLORS walkers were registered one after the
\* other: the colours 0 .. MAX_COLORS - 1 are all taken
InitFull ==
    /\ walkingSlots = {}
    /\ nextId = 1
    /\ walkerColors = {[name |-> PaletteNames[i + 1], colorIndex |-> i, phone |-> NULL]
                         : i \in 0..(MAX_COLORS - 1)}
    /\ firstColor = [n \in Names |-> -1]
    /\ dbUp = TRUE
    /\ now = 0
    /\ req = [r \in Reqs |-> Idle]
    /\ opsLeft = MaxOps

NextFull ==
    \/ \E r \in Reqs : ColorStart(r)
    \/ \E r \in Reqs, n \in Names : WalkerSelect(r, n)
    \/ \E r \in Reqs, n \in Names : WalkerGetAll(r, n)
    \/ \E r \in Reqs, n \in Names : WalkerInsert(r, n)
    \/ DbFails
    \/ DbRecovers

SpecFull == InitFull /\ [][NextFull]_vars

\* ------------------------------------------------------------- properties
Done(r, kind) == req[r].kind = kind /\ req[r].pc = "done"
SameKey(a, b) == req[a].date = req[b].date /\ req[a].time = req[b].time
TheSlot(q) == CHOOSE x \in q.slot : TRUE

\* C1: at every moment the slot store holds at most one slot for a
\* (date, time) key.
C1_OneSlotPerKey ==
    \A a, b \in walkingSlots : (a.date = b.date /\ a.time = b.time) => a = b

\* C2: two book requests for the same key are never both answered 201 with
\* both of their bookings stored: of two requests that race for a key, one
\* is rejected.
C2_NeverTwoSuccesses ==
    \A a, b \in Reqs :
        (/\ a # b /\ Done(a, "book") /\ Done(b, "book") /\ SameKey(a, b)
         /\ req[a].status = 201 /\ req[b].status = 201)
        => Cardinality(RowsAt(walkingSlots, req[a].date, req[a].time)) <= 1

\* C3: a cancel request that finds a slot stored under another name is
\* answered 403 and removes nothing.
C3_ForeignCancelForbidden ==
    \A r \in Reqs :
        (Done(r, "cancel") /\ req[r].slot # {} /\ TheSlot(req[r]).name # req[r].name)
        => (req[r].status = 403 /\ ~req[r].removed)

\* C4: a book request that finds its key already booked, in the route's
\* check or in addSlot's, is answered 409.
C4_ConflictIs409 ==
    \A r \in Reqs : (Done(r, "book") /\ req[r].taken) => req[r].status = 409

\* C5: when the route's lookup of a cancel request runs while the key holds
\* no slot, the request is answered 404 in that step, the slot store is left
\* as it is and no notification is sent.
C5_CancelOfFreeKey ==
    [][\A r \in Reqs :
          (/\ req[r].pc = "cancel_check" /\ req'[r].pc # "cancel_check"
           /\ RowsAt(walkingSlots, req[r].date, req[r].time) = {})
          => (/\ req'[r].pc = "done" /\ req'[r].status = 404
              /\ req'[r].events = <<>>
              /\ walkingSlots' = walkingSlots)]_vars

\* C5 witness: a cancel request was answered 404 and nothing was ever stored
C5_Witness ==
    \E r \in Reqs :
        /\ Done(r, "cancel") /\ req[r].status = 404 /\ req[r].events = <<>>
        /\ walkingSlots = {} /\ nextId = 1

\* C6: when a cancel request with the name of the slot it found is answered
\* 200, the key holds no slot any more: getSlot returns null for it.
C6_CancelEmptiesKey ==
    [][\A r \in Reqs :
          (/\ req[r].kind = "cancel" /\ req[r].pc # "done"
           /\ req'[r].pc = "done" /\ req'[r].status = 200
           /\ TheSlot(req'[r]).name = req[r].name)
          => getSlot(walkingSlots', TRUE, req[r].date, req[r].time) = {{}}]_vars

\* the calendar day after a calendar date
NextDay(d) ==
    IF d[3] < DaysInMonth(d[1], d[2]) THEN <<d[1], d[2], d[3] + 1>>
    ELSE IF d[2] < 12 THEN <<d[1], d[2] + 1, 1>>
    ELSE <<d[1] + 1, 1, 1>>

RECURSIVE DaysFrom(_, _)
DaysFrom(d, n) == IF n = 0 THEN {} ELSE {d} \cup DaysFrom(NextDay(d), n - 1)

TheSchedule(q) == CHOOSE x \in q.schedule : TRUE

C10_ListsMatchStore ==
    \A r \in Reqs :
        (Done(r, "schedule") /\ req[r].status = 200)
        => LET sch == TheSchedule(req[r]) IN
           \A d \in DOMAIN sch :
              /\ Len(sch[d]) = Cardinality({s \in walkingSlots : s.date = d})
              /\ {sch[d][i] : i \in DOMAIN sch[d]}
                    = {SlotOf(s) : s \in {x \in walkingSlots : x.date = d}}
              /\ \A i, j \in DOMAIN sch[d] : i < j => sch[d][i].time <= sch[d][j].time

\* C7: every colorIndex returned for a name, by the colour route, by the
\* update route or in a leaderboard entry, is the colorIndex first returned
\* for that name, whatever happened in between.
C7_ColorIsStable ==
    \A r \in Reqs :
        /\ (req[r].kind \in {"color", "update"} /\ req[r].pc = "done"
            /\ req[r].status = 200) => req[r].colorIndex = firstColor[req[r].name]
        /\ \A i \in DOMAIN req[r].leaderboard :
              req[r].leaderboard[i].colorIndex = firstColor[req[r].leaderboard[i].name]

\* C8: while fewer than MAX_COLORS walkers are registered, no two of them
\* have the same colorIndex.
C8_DistinctColors ==
    Cardinality(walkerColors) < MAX_COLORS
    => \A a, b \in walkerColors : a.name # b.name => a.colorIndex # b.colorIndex

\* the names of an answered leaderboard, in its order
BoardNames(q) == [i \in DOMAIN q.leaderboard |-> q.leaderboard[i].name]

\* a leaderboard request that was answered 200
Board(r) ==
    req[r].kind \in {"allTime", "nextWeek"} /\ req[r].pc = "done" /\ req[r].status = 200

\* the <<name, count>> pairs of the names that have a row among rows
CountsOf(rows) ==
    {<<n, Cardinality({s \in rows : s.name = n})>> : n \in {s.name : s \in rows}}

\* C11: the all-time leaderboard has one entry for every name with a stored
\* slot and no other entry, and totalWalks of an entry is the number of
\* stored slots of its name.
C11_AllTimeCounts ==
    \A r \in Reqs :
        (Board(r) /\ req[r].kind = "allTime")
        => /\ Len(req[r].leaderboard) = Cardinality({s.name : s \in walkingSlots})
           /\ {<<req[r].leaderboard[i].name, req[r].leaderboard[i].totalWalks>>
                 : i \in DOMAIN req[r].leaderboard} = CountsOf(walkingSlots)

\* C12: the next-week leaderboard counts for every name exactly the stored
\* slots dated on one of the 7 calendar days start .. start + 6.
C12_NextWeekCounts ==
    \A r \in Reqs :
        (Board(r) /\ req[r].kind = "nextWeek")
        => LET rows == {s \in walkingSlots : s.date \in DaysFrom(req[r].start, 7)} IN
           /\ Len(req[r].leaderboard) = Cardinality({s.name : s \in rows})
           /\ {<<req[r].leaderboard[i].name, req[r].leaderboard[i].totalWalks>>
                 : i \in DOMAIN req[r].leaderboard} = CountsOf(rows)

\* the descending half of C13: no entry of an answered leaderboard is
\* followed by one with more walks
BoardDescending ==
    \A r \in Reqs :
        Board(r) => \A i, j \in DOMAIN req[r].leaderboard :
                       i < j => req[r].leaderboard[i].totalWalks
                                   >= req[r].leaderboard[j].totalWalks

\* C13: a leaderboard is ordered by totalWalks descending, and two answers
\* of the same leaderboard over the same store list the names in the same
\* order, entries with equal counts included.
C13_OrderedAndRepeatable ==
    /\ BoardDescending
    /\ \A a, b \in Reqs :
          (Board(a) /\ Board(b) /\ req[a].kind = req[b].kind /\ req[a].start = req[b].start)
          => BoardNames(req[a]) = BoardNames(req[b])

\* C14: the step in which a request's insert or delete takes effect answers
\* the request 201 / 200 whatever the notification resolves to, and the
\* write stays: the inserted row is stored, the rows of the cancelled key are
\* gone.
C14_WriteIsReported ==
    [][\A r \in Reqs :
          /\ (req[r].pc = "add_insert" /\ req'[r].pc = "done"
              /\ walkingSlots' # walkingSlots)
             => /\ req'[r].status = 201
                /\ \E row \in walkingSlots' \ walkingSlots :
                      {SlotOf(row)} = {SlotOf(x) : x \in req'[r].body}
          /\ (req[r].pc = "remove_delete" /\ req'[r].pc = "done"
              /\ walkingSlots' # walkingSlots)
             => /\ req'[r].status = 200
                /\ RowsAt(walkingSlots', req[r].date, req[r].time) = {}]_vars

\* C14 witness: a booking and a cancellation, each answered as successful
\* with its write in the store, whose notifications failed
C14_Witness ==
    /\ Done(1, "cancel") /\ req[1].status = 200 /\ req[1].removed
    /\ req[1].events[1].sms = "false"
    /\ RowsAt(walkingSlots, req[1].date, req[1].time) = {}
    /\ Done(2, "book") /\ req[2].status = 201 /\ req[2].events[1].sms = "false"
    /\ RowsAt(walkingSlots, req[2].date, req[2].time) # {}

C16_MalformedIsRejected ==
    /\ \A r \in Reqs :
          (/\ req[r].kind = "book"
           /\ \/ ~DateShape(req[r].date)
              \/ ~TimeShape(req[r].time)
              \/ Trim(req[r].name) = "")
          => (req[r].pc = "done" /\ req[r].status = 400 /\ req[r].error = "ZodError")
    /\ \A row \in walkingSlots : Trim(row.name) # ""

\* C17: when an update request for (name, phone) is answered while the
\* registry already holds name with that phone, left by an earlier update
\* with the same arguments, the registry stays as it is and the answer
\* carries the stored colorIndex.
C17_UpdateIsIdempotent ==
    [][\A r \in Reqs :
          (/\ req[r].kind = "update" /\ req[r].pc # "done"
           /\ req'[r].pc = "done" /\ req'[r].status = 200)
          => \A w \in walkerColors :
                (w.name = req[r].name /\ w.phone = req[r].phone)
                => (walkerColors' = walkerColors /\ req'[r].colorIndex = w.colorIndex)]_vars

\* the walkers whose name contains the query, compared in lower case
Matching(walkers, query) ==
    {w \in walkers : Includes(ToLowerCase(Chars(w.name)), ToLowerCase(query))}

\* C19: the answer of a search holds exactly the registered walkers whose
\* name contains the query, compared case-insensitively; for the empty
\* query these are all the registered walkers.
C19_SearchMatches ==
    [][\A r \in Reqs :
          (req[r].pc = "search_query" /\ req'[r].pc = "done")
          => (/\ req'[r].status = 200
              /\ req'[r].walkers = Matching(walkerColors, req[r].query))]_vars

\* the smallest index of 0 .. MAX_COLORS - 1 that no walker has
LowestFree(walkers) ==
    CHOOSE i \in 0..(MAX_COLORS - 1) :
        /\ \A w \in walkers : w.colorIndex # i
        /\ \A j \in 0..(i - 1) : \E w \in walkers : w.colorIndex = j

\* C20: when a call of getWalkerColorIndex returns for a name that is not
\* registered, while an index is free, the step registers the name with the
\* smallest index no registered walker has, and the call returns that index.
C20_LowestFreeIndex ==
    [][\A r \in Reqs, n \in Names :
          (/\ n \in DOMAIN req[r].calls /\ n \in DOMAIN req'[r].calls
           /\ req[r].calls[n].pc # "done" /\ req'[r].calls[n].pc = "done"
           /\ \A w \in walkerColors : w.name # n
           /\ Cardinality({w.colorIndex : w \in walkerColors}) < MAX_COLORS)
          => (/\ walkerColors' = walkerColors \cup
                    {[name |-> n, colorIndex |-> LowestFree(walkerColors), phone |-> NULL]}
              /\ req'[r].calls[n].ret = LowestFree(walkerColors))]_vars

\* C18: a book or cancel request that is answered in a step in which its
\* query finds the database unreachable is answered 500: not 404, not 400,
\* not 200 or 201.
C18_OutageIsServerError ==
    [][\A r \in Reqs :
          (/\ req[r].kind \in {"book", "cancel"} /\ InFlight(r)
           /\ req'[r].pc = "done" /\ ~dbUp)
          => req'[r].status = 500]_vars

\* C21: a call of getWalkerColorIndex for a new name ends also when every
\* colour is taken: no call stays in its loop, and a colour request that is
\* answered carries an index of 0 .. MAX_COLORS - 1.
C21_FullPaletteTerminates ==
    /\ ~Spinning
    /\ \A r \in Reqs : Done(r, "color") => req[r].colorIndex \in 0..(MAX_COLORS - 1)

\* a colour request that was answered and whose call found its name
\* unregistered and went on to insert it
Registering(r) ==
    Done(r, "color") /\ req[r].calls[req[r].name].nextIndex # -1

\* C22: two colour requests for different names that both found their name
\* unregistered are answered with different indices, and both names are
\* stored with the index their request was answered with.
C22_RacingNamesDiffer ==
    \A a, b \in Reqs :
        (a # b /\ Registering(a) /\ Registering(b) /\ req[a].name # req[b].name)
        => /\ req[a].colorIndex # req[b].colorIndex
           /\ \A r \in {a, b} :
                 \E w \in walkerColors :
                    w.name = req[r].name /\ w.colorIndex = req[r].colorIndex

\* C23: no step of a leaderboard request changes the slot store or the
\* walker registry.
C23_BoardsOnlyRead ==
    [][\A r \in Reqs :
          (req[r].kind \in {"allTime", "nextWeek"} /\ req'[r] # req[r]
           /\ req'[r].kind = req[r].kind /\ InFlight(r))
          => (walkingSlots' = walkingSlots /\ walkerColors' = walkerColors)]_vars

\* C24: once a book request is answered 201 its name is a registered
\* walker: walker_colors has a row for it, which getAllWalkers and a
\* matching search return.
C24_BookerIsRegistered ==
    \A r \in Reqs :
        (Done(r, "book") /\ req[r].status = 201)
        => \E w \in walkerColors :
              /\ w.name = req[r].name
              /\ w.colorIndex \in 0..(MAX_COLORS - 1)
              /\ w \in searchWalkers(walkerColors, TRUE, Chars(req[r].name))

\* C25: the step in which a book request is rejected because its key is
\* taken changes neither the slot store nor the walker registry, and the
\* request has emitted no event.
C25_RejectedBookChangesNothing ==
    [][\A r \in Reqs :
          (/\ req[r].kind = "book" /\ InFlight(r)
           /\ req'[r].pc = "done" /\ req'[r].taken)
          => (/\ walkingSlots' = walkingSlots
              /\ walkerColors' = walkerColors
              /\ req'[r].events = <<>>)]_vars

\* C25 witness: a booking of Bob was rejected as taken and the key still
\* holds the one slot of Ann, booked at instant 0, after the clock moved on
C25_Witness ==
    \E r \in Reqs :
        /\ Done(r, "book") /\ req[r].taken /\ req[r].status = 400
        /\ req[r].name = "Bob" /\ req[r].events = <<>>
        /\ now = 1
        /\ \E row \in walkingSlots :
              /\ RowsAt(walkingSlots, req[r].date, req[r].time) = {row}
              /\ row.name = "Ann" /\ row.timestamp = 0

\* C26: the name in the cancel event of a cancellation answered 200 is the
\* name stored on the slot the request found and removed.
C26_EventNamesTheOwner ==
    \A r \in Reqs :
        (Done(r, "cancel") /\ req[r].status = 200)
        => \A i \in DOMAIN req[r].events :
              req[r].events[i].slot.name = TheSlot(req[r]).name

\* C27: while the rows of a booked key are not deleted, getSlot for the key
\* keeps returning the slot it returned before: no step changes the name,
\* the notes or the timestamp it answers with.
C27_SlotIsNeverReplaced ==
    [][\A d \in SlotDates, t \in Times :
          (/\ RowsAt(walkingSlots, d, t) # {}
           /\ RowsAt(walkingSlots, d, t) \subseteq walkingSlots')
          => getSlot(walkingSlots', TRUE, d, t) = getSlot(walkingSlots, TRUE, d, t)]_vars

\* C28: while one booking only was ever stored, two cancel requests for its
\* key with the name of its owner are never both answered 200, and they
\* never emit two cancel events between them.
C28_OneCancelWins ==
    \A a, b \in Reqs :
        (/\ a # b /\ Done(a, "cancel") /\ Done(b, "cancel") /\ SameKey(a, b)
         /\ nextId = 2
         /\ req[a].name = req[b].name
         /\ \A r \in {a, b} : req[r].slot # {} => TheSlot(req[r]).name = req[r].name)
        => /\ ~(req[a].status = 200 /\ req[b].status = 200)
           /\ Len(req[a].events) + Len(req[b].events) <= 1

\* C29: the delete of a cancel request removes no row other than the one its
\* existence check saw: when the key holds one row and removeSlot's delete
\* returns, the row that is gone is the slot the route read.
C29_DeletesWhatItSaw ==
    [][\A r \in Reqs :
          (/\ req[r].pc = "remove_delete"
           /\ req'[r].pc = "done"
           /\ req'[r].removed = TRUE
           /\ Cardinality(RowsAt(walkingSlots, req[r].date, req[r].time)) = 1)
          => \A row \in walkingSlots \ walkingSlots' : SlotOf(row) = TheSlot(req[r])]_vars

\* C30: two colour requests for one name that both found the name
\* unregistered, and one of which stored the name, are answered with the same
\* index, which is the index stored, and the registry holds one row for the
\* name.
C30_RacingNameAgrees ==
    \A a, b \in Reqs :
        (/\ a # b /\ Registering(a) /\ Registering(b) /\ req[a].name = req[b].name
         /\ \E w \in walkerColors : w.name = req[a].name)
        => /\ req[a].colorIndex = req[b].colorIndex
           /\ Cardinality({w \in walkerColors : w.name = req[a].name}) = 1
           /\ \A w \in walkerColors :
                 w.name = req[a].name => w.colorIndex = req[a].colorIndex

====
